---------------------------- MODULE Spec2Model ----------------------------
(***************************************************************************)
(* A model of the kvs key/value store (src/src/lib.rs): the native         *)
(* log-structured engine KvStore (open/recovery, get, set, remove) over a  *)
(* root directory of slot files, the archive tag shared with the sled      *)
(* engine, and the single-threaded request/response server.                *)
(***************************************************************************)
EXTENDS Integers, Sequences, FiniteSets, TLC

(***************************************************************************)
(* Bounds of the model.                                                    *)
(***************************************************************************)
\* number of distinct values the clients use
NumValues == 2
\* usize::MAX of the model: slot indices and the slot counter live in
\* 0..UsizeMax and wrap around at UsizeMax + 1 (reduced from 2^64 - 1)
UsizeMax == 3
\* number of operations the model follows an instance through after its
\* slot counter has wrapped around
MaxWrappedOps == 1

\* the keys the clients use: two, so that a slot other than the last can be freed
Keys == {"a", "b"}
ValueNames == <<"1", "2", "3", "4">>
Values == {ValueNames[i] : i \in 1..NumValues}

NoVal == "-"
EmptyFn == [x \in {} |-> x]

VARIABLES
    tag,      \* content of root/.kvs: "none" (absent), "kvs" or "sled"
    files,    \* slot files under the root: slot index -> encoded content
    dbFiles,  \* whether the sled database files exist under the root
    owner,    \* the engine instance alive on the root: "none", "kvs", "sled"
    map,      \* KvStore.map: key -> slot index
    logs,     \* KvStore.logs: sequence of (key, Storage)
    seek,     \* KvStore.seek
    alt,      \* the store of a SledKvsEngine run side by side on the same requests
    hist,     \* history: key -> value of its most recent completed mutation (NoVal: removed / never set)
    fresh,    \* TRUE while the last instance is the first one, opened on the empty root
    wrapAge,  \* 0, or 1 + the number of operations since the slot counter wrapped around
    snap,     \* what get returned for every key when the instance was closed
    lastOp    \* the last operation and what it returned

engVars == <<tag, files, dbFiles, owner, map, logs, seek, alt, hist, fresh, wrapAge, snap, lastOp>>

VARIABLES
    spc,      \* the server: "down", "accept" (in listener.incoming()) or "serving" (in serve)
    cur,      \* the client whose connection serve holds
    backlog,  \* connections made and not yet accepted, in the order they were made
    cli,      \* per client: its position in KvsClient::request and its connection
    nconn,    \* connections made so far
    order     \* per connection this server process accepted, in accept order: the
              \* request serve gave the engine (Pending until serve returns, <<>> if none)

srvVars == <<spc, cur, backlog, cli, nconn, order>>

vars == <<engVars, srvVars>>

(***************************************************************************)
(* Results: Result<T> of lib.rs, with panics as one more outcome.          *)
(***************************************************************************)
Ret(kind) == [kind |-> kind, val |-> NoVal]
Some(v) == [kind |-> "Some", val |-> v]
IsErr(r) == r.kind \in {"Io", "Serde", "NotFound", "BadArchive", "Sled"}

(***************************************************************************)
(* Command and its serde_json text, as a sequence of tokens:               *)
(* {"Set":["k","v"]} is <<"Set", k, v>>, {"Remove":"k"} is <<"Remove", k>>.*)
(* An empty (created or truncated, not yet written) file is <<>>.          *)
(***************************************************************************)
SetCmd(k, v) == [type |-> "Set", key |-> k, value |-> v]
RemoveCmd(k) == [type |-> "Remove", key |-> k, value |-> NoVal]

to_string(cmd) ==
    IF cmd.type = "Set" THEN <<"Set", cmd.key, cmd.value>>
    ELSE <<"Remove", cmd.key>>

from_str(s) ==
    IF Len(s) = 3 /\ s[1] = "Set"
    THEN [ok |-> TRUE, cmd |-> SetCmd(s[2], s[3])]
    ELSE IF Len(s) = 2 /\ s[1] = "Remove"
    THEN [ok |-> TRUE, cmd |-> RemoveCmd(s[2])]
    ELSE [ok |-> FALSE, cmd |-> RemoveCmd(NoVal)]

(***************************************************************************)
(* Storage: Disk(offset) or Memory(value).                                 *)
(***************************************************************************)
Disk(n) == [t |-> "Disk", off |-> n, val |-> NoVal]
Memory(v) == [t |-> "Memory", off |-> 0, val |-> v]
Log(k, st) == [key |-> k, st |-> st]

(***************************************************************************)
(* The filesystem calls on slot files.                                     *)
(***************************************************************************)
\* File::create + write: create or truncate, then the content
WriteFile(f, i, c) == [j \in DOMAIN f \cup {i} |-> IF j = i THEN c ELSE f[j]]
\* std::fs::remove_file of an existing file
RemoveFile(f, i) == [j \in DOMAIN f \ {i} |-> f[j]]
\* std::fs::rename of an existing file: replaces dst; a no-op when src = dst
Rename(f, src, dst) ==
    IF src = dst THEN f
    ELSE [j \in (DOMAIN f \ {src}) \cup {dst} |-> IF j = dst THEN f[src] ELSE f[j]]

\* HashMap::insert, HashMap::remove
MapInsert(m, k, v) == [x \in DOMAIN m \cup {k} |-> IF x = k THEN v ELSE m[x]]
MapRemove(m, k) == [x \in DOMAIN m \ {k} |-> m[x]]
\* Vec::pop: the vector without its last element
PopLogs(l) == IF Len(l) = 0 THEN l ELSE SubSeq(l, 1, Len(l) - 1)


(***************************************************************************)
(* Arithmetic on the usize slot counter.  An overflowing += 1 or -= 1      *)
(* panics in a build with overflow checks and wraps around in a build      *)
(* without: ovf names which of the two the build does.                     *)
(***************************************************************************)
Overflow == {"panic", "wrap"}

(***************************************************************************)
(* The engine state an operation works on and leaves behind.               *)
(***************************************************************************)
Eng(r, m, l, s, f) == [ret |-> r, map |-> m, logs |-> l, seek |-> s, files |-> f]

(***************************************************************************)
(* KvStore::get.                                                           *)
(***************************************************************************)
KvGet(m, l, s, f, key) ==
    IF key \notin DOMAIN m THEN Eng(Ret("None"), m, l, s, f)
    ELSE LET offset == m[key] IN
        \* self.logs.get_mut(*offset).unwrap()
        IF offset >= Len(l) THEN Eng(Ret("Panic"), m, l, s, f)
        ELSE LET storage == l[offset + 1].st IN
            IF storage.t = "Memory" THEN Eng(Some(storage.val), m, l, s, f)
            \* File::open(&path)?
            ELSE IF storage.off \notin DOMAIN f THEN Eng(Ret("Io"), m, l, s, f)
            ELSE LET d == from_str(f[storage.off]) IN
                IF ~d.ok THEN Eng(Ret("Serde"), m, l, s, f)
                ELSE IF d.cmd.type = "Set"
                THEN Eng(Some(d.cmd.value), m,
                         [l EXCEPT ![offset + 1].st = Memory(d.cmd.value)], s, f)
                \* Inconsistency detected: unbind the key
                ELSE Eng(Ret("None"), MapRemove(m, key), l, s, f)

(***************************************************************************)
(* KvStore::set.                                                           *)
(***************************************************************************)
KvSet(m, l, s, f, key, value, ovf) ==
    LET string == to_string(SetCmd(key, value)) IN
    IF key \in DOMAIN m
    THEN LET offset == m[key]
             f2 == WriteFile(f, offset, string)
         IN  \* &mut self.logs[*offset]
             IF offset >= Len(l) THEN Eng(Ret("Panic"), m, l, s, f2)
             ELSE IF l[offset + 1].st.t = "Memory"
             THEN Eng(Ret("Ok"), m, [l EXCEPT ![offset + 1].st = Memory(value)], s, f2)
             ELSE Eng(Ret("Ok"), m, l, s, f2)
    ELSE LET f2 == WriteFile(f, s, string)
             m2 == MapInsert(m, key, s)
             l2 == Append(l, Log(key, Memory(value)))
         IN  \* self.seek += 1
             IF s = UsizeMax
             THEN IF ovf = "panic" THEN Eng(Ret("Panic"), m2, l2, s, f2)
                  ELSE Eng(Ret("Ok"), m2, l2, 0, f2)
             ELSE Eng(Ret("Ok"), m2, l2, s + 1, f2)

(***************************************************************************)
(* KvStore::remove.  KvRemoveFound is the branch taken when the key is in  *)
(* the directory at slot offset, after self.seek -= 1 gave s.              *)
(***************************************************************************)
KvRemoveFound(m, l, s, f, key, offset) ==
    IF s # offset
    THEN \* rename(&path, &new_path)?
         IF s \notin DOMAIN f THEN Eng(Ret("Io"), m, l, s, f)
         ELSE LET f2 == Rename(f, s, offset) IN
             \* self.logs.pop().unwrap()
             IF Len(l) = 0 THEN Eng(Ret("Panic"), m, l, s, f2)
             ELSE LET last == l[Len(l)]
                      log == IF last.st.t = "Disk" THEN Log(last.key, Disk(offset)) ELSE last
                      l2 == PopLogs(l)
                  IN  \* self.logs[offset] = log
                      IF offset >= Len(l2) THEN Eng(Ret("Panic"), m, l2, s, f2)
                      ELSE Eng(Ret("Ok"), MapInsert(m, log.key, offset),
                               [l2 EXCEPT ![offset + 1] = log], s, f2)
    ELSE \* remove_file(&path)?
         IF s \notin DOMAIN f THEN Eng(Ret("Io"), m, l, s, f)
         ELSE Eng(Ret("Ok"), MapRemove(m, key), PopLogs(l), s, RemoveFile(f, s))

\* a remove that moves the slot counter before it looks the key up
KvRemoveEager(m, l, s, f, key, ovf) ==
    LET s2 == IF s = 0 THEN UsizeMax ELSE s - 1 IN
    IF key \in DOMAIN m
    THEN KvRemoveFound(m, l, s2, f, key, m[key])
    ELSE Eng(Ret("NotFound"), m, l, s2, f)

KvRemove(m, l, s, f, key, ovf) ==
    IF key \in DOMAIN m
    THEN LET offset == m[key] IN
         \* self.seek -= 1
         IF s = 0
         THEN IF ovf = "panic" THEN Eng(Ret("Panic"), m, l, s, f)
              ELSE KvRemoveFound(m, l, UsizeMax, f, key, offset)
         ELSE KvRemoveFound(m, l, s - 1, f, key, offset)
    ELSE Eng(Ret("NotFound"), m, l, s, f)

(***************************************************************************)
(* The archive tag: archive_type and the match on it in the two opens.     *)
(* The result is what open goes on with and the tag it leaves.             *)
(***************************************************************************)
\* an open that writes its own tag whatever it found
OpenTagOverwrite(t, engine) == [ret |-> Ret("Ok"), tag |-> engine]

OpenTag(t, engine) ==
    IF t = "none" THEN [ret |-> Ret("Ok"), tag |-> engine]
    ELSE IF t # engine THEN [ret |-> Ret("BadArchive"), tag |-> t]
    ELSE [ret |-> Ret("Ok"), tag |-> t]

(***************************************************************************)
(* KvStore::open, the recovery loop over the slot files 0, 1, 2, ...       *)
(***************************************************************************)
\* for j in seek..i { remove_file(&path)?; }
RECURSIVE OpenResidual(_, _, _)
OpenResidual(f, j, i) ==
    IF j >= i THEN [ok |-> TRUE, files |-> f]
    ELSE IF j \notin DOMAIN f THEN [ok |-> FALSE, files |-> f]
    ELSE OpenResidual(RemoveFile(f, j), j + 1, i)

RECURSIVE OpenLoop(_, _, _, _, _)
OpenLoop(i, m, l, s, f) ==
    IF i \notin DOMAIN f
    THEN LET r == OpenResidual(f, s, i) IN
         Eng(IF r.ok THEN Ret("Ok") ELSE Ret("Io"), m, l, s, r.files)
    ELSE LET d == from_str(f[i]) IN
        IF ~d.ok THEN Eng(Ret("Serde"), m, l, s, f)
        ELSE LET key == d.cmd.key IN
            IF d.cmd.type = "Set"
            THEN IF key \in DOMAIN m
                 THEN OpenLoop(i + 1, m, l, s, Rename(f, i, m[key]))
                 ELSE OpenLoop(i + 1, MapInsert(m, key, s),
                               Append(l, Log(key, Disk(s))), s + 1, Rename(f, i, s))
            ELSE IF key \in DOMAIN m /\ s # 0
                 THEN LET offset == m[key]
                          s2 == s - 1
                      IN  \* rename(&path, &new_path)?
                          IF s2 \notin DOMAIN f THEN Eng(Ret("Io"), m, l, s2, f)
                          ELSE LET f2 == Rename(f, s2, offset) IN
                              \* logs.pop().unwrap()
                              IF Len(l) = 0 THEN Eng(Ret("Panic"), m, l, s2, f2)
                              ELSE LET last == l[Len(l)]
                                       log == IF last.st.t = "Disk"
                                              THEN Log(last.key, Disk(offset)) ELSE last
                                       l2 == PopLogs(l)
                                   IN  \* logs[offset] = log
                                       IF offset >= Len(l2) THEN Eng(Ret("Panic"), m, l2, s2, f2)
                                       ELSE OpenLoop(i + 1,
                                                MapRemove(MapInsert(m, log.key, offset), key),
                                                [l2 EXCEPT ![offset + 1] = log], s2, f2)
                 ELSE OpenLoop(i + 1, MapRemove(m, key), l, s, f)

KvOpen(t, f) ==
    LET a == OpenTag(t, "kvs") IN
    IF a.ret.kind # "Ok"
    THEN [ret |-> a.ret, tag |-> a.tag, map |-> EmptyFn, logs |-> <<>>, seek |-> 0, files |-> f]
    ELSE LET e == OpenLoop(0, EmptyFn, <<>>, 0, f) IN
         [ret |-> e.ret, tag |-> a.tag, map |-> e.map, logs |-> e.logs,
          seek |-> e.seek, files |-> e.files]

(***************************************************************************)
(* SledKvsEngine: open, and get/set/remove over the sled Db, a map from    *)
(* key to value.                                                           *)
(***************************************************************************)
SledOpenEngine(t) == OpenTag(t, "sled")

SledGet(db, key) ==
    IF key \in DOMAIN db THEN [ret |-> Some(db[key]), db |-> db]
    ELSE [ret |-> Ret("None"), db |-> db]

SledSet(db, key, value) == [ret |-> Ret("Ok"), db |-> MapInsert(db, key, value)]

SledRemove(db, key) ==
    IF key \in DOMAIN db THEN [ret |-> Ret("Ok"), db |-> MapRemove(db, key)]
    ELSE [ret |-> Ret("NotFound"), db |-> db]

(***************************************************************************)
(* The state machine: one process at a time owns the root.                 *)
(***************************************************************************)
Op(op, engine, key, ret, altRet, wasLive, after) ==
    [op |-> op, engine |-> engine, key |-> key, ret |-> ret,
     altRet |-> altRet, wasLive |-> wasLive, after |-> after]

\* the clients that connect to the server
Clients == {"c1", "c2"}

\* the entry of order for a connection serve has not returned from
Pending == <<"pending">>

\* a client with no connection
NoConn == [pc |-> "idle", sent |-> <<>>, recv |-> <<>>, accepted |-> FALSE,
           ended |-> FALSE, terr |-> FALSE]

SrvInit ==
    /\ spc = "down"
    /\ cur = NoVal
    /\ backlog = <<>>
    /\ cli = [c \in Clients |-> NoConn]
    /\ nconn = 0
    /\ order = <<>>

Init ==
    /\ SrvInit
    /\ tag = "none"
    /\ files = EmptyFn
    /\ dbFiles = FALSE
    /\ owner = "none"
    /\ map = EmptyFn
    /\ logs = <<>>
    /\ seek = 0
    /\ alt = EmptyFn
    /\ hist = [k \in Keys |-> NoVal]
    /\ fresh = FALSE
    /\ wrapAge = 0
    /\ snap = EmptyFn
    /\ lastOp = Op("init", "none", NoVal, Ret("Ok"), Ret("Ok"), FALSE, "init")

\* how the process that owned the root before this open ended
Ended ==
    IF lastOp.op \in {"init", "close", "crash"} THEN lastOp.op
    ELSE IF lastOp.ret.kind = "Panic" THEN "panic"
    ELSE "failed"

\* what get(k) returns in the current state
GetRet(k) == KvGet(map, logs, seek, files, k).ret

\* what the history says get(k) returns
Expected(k) == IF hist[k] = NoVal THEN Ret("None") ELSE Some(hist[k])

Live == {k \in Keys : hist[k] # NoVal}

\* the engine's memory after the operation that returned e; a panic ends the
\* process.  wraps: the operation wrapped the slot counter around
Apply(e, wraps) ==
    /\ files' = e.files
    /\ IF e.ret.kind = "Panic"
       THEN /\ owner' = "none"
            /\ map' = EmptyFn
            /\ logs' = <<>>
            /\ seek' = 0
            /\ wrapAge' = 0
       ELSE /\ owner' = owner
            /\ map' = e.map
            /\ logs' = e.logs
            /\ seek' = e.seek
            /\ wrapAge' = IF wrapAge > 0 THEN wrapAge + 1 ELSE IF wraps THEN 1 ELSE 0

\* main.rs / kvs-server.rs: KvStore::open on the root
KvStoreOpen ==
    /\ owner = "none"
    /\ LET r == KvOpen(tag, files) IN
        /\ tag' = r.tag
        /\ files' = r.files
        /\ IF r.ret.kind = "Ok"
           THEN /\ owner' = "kvs"
                /\ map' = r.map
                /\ logs' = r.logs
                /\ seek' = r.seek
           ELSE /\ owner' = "none"
                /\ map' = EmptyFn
                /\ logs' = <<>>
                /\ seek' = 0
        /\ fresh' = (lastOp.op = "init" /\ r.ret.kind = "Ok")
        /\ lastOp' = Op("open", "kvs", NoVal, r.ret, Ret("Ok"), FALSE, Ended)
    /\ UNCHANGED <<dbFiles, alt, hist, wrapAge, snap>>

\* kvs-server.rs: SledKvsEngine::open on the root
SledOpen ==
    /\ owner = "none"
    /\ LET a == SledOpenEngine(tag) IN
        /\ tag' = a.tag
        /\ owner' = IF a.ret.kind = "Ok" THEN "sled" ELSE "none"
        \* sled::open(root) creates the database under the root
        /\ dbFiles' = IF a.ret.kind = "Ok" THEN TRUE ELSE dbFiles
        /\ lastOp' = Op("open", "sled", NoVal, a.ret, Ret("Ok"), FALSE, Ended)
    /\ fresh' = FALSE
    /\ UNCHANGED <<files, map, logs, seek, alt, hist, wrapAge, snap>>

\* the owner is released: the engine is dropped, the root stays
Close ==
    /\ owner # "none"
    /\ owner' = "none"
    /\ snap' = IF owner = "kvs" THEN [k \in Keys |-> GetRet(k)] ELSE EmptyFn
    /\ map' = EmptyFn
    /\ logs' = <<>>
    /\ seek' = 0
    /\ fresh' = FALSE
    /\ wrapAge' = 0
    /\ lastOp' = Op("close", owner, NoVal, Ret("Ok"), Ret("Ok"), FALSE, "init")
    /\ UNCHANGED <<tag, files, dbFiles, alt, hist>>

Get(k) ==
    /\ owner = "kvs"
    /\ wrapAge <= MaxWrappedOps
    /\ LET e == KvGet(map, logs, seek, files, k)
           a == SledGet(alt, k)
       IN /\ Apply(e, FALSE)
          /\ alt' = a.db
          /\ fresh' = fresh
          /\ lastOp' = Op("get", "kvs", k, e.ret, a.ret, hist[k] # NoVal, "init")
    /\ snap' = EmptyFn
    /\ UNCHANGED <<tag, dbFiles, hist>>

Set(k, v) ==
    /\ owner = "kvs"
    /\ wrapAge <= MaxWrappedOps
    /\ \E ovf \in Overflow :
        LET e == KvSet(map, logs, seek, files, k, v, ovf)
            a == SledSet(alt, k, v)
        IN /\ Apply(e, k \notin DOMAIN map /\ seek = UsizeMax)
           /\ alt' = a.db
           /\ hist' = IF e.ret.kind = "Ok" THEN [hist EXCEPT ![k] = v] ELSE hist
           /\ fresh' = fresh
           /\ lastOp' = Op("set", "kvs", k, e.ret, a.ret, hist[k] # NoVal, "init")
    /\ snap' = EmptyFn
    /\ UNCHANGED <<tag, dbFiles>>

Remove(k) ==
    /\ owner = "kvs"
    /\ wrapAge <= MaxWrappedOps
    /\ \E ovf \in Overflow :
        LET e == KvRemove(map, logs, seek, files, k, ovf)
            a == SledRemove(alt, k)
        IN /\ Apply(e, k \in DOMAIN map /\ seek = 0)
           /\ alt' = a.db
           /\ hist' = IF e.ret.kind = "Ok" THEN [hist EXCEPT ![k] = NoVal] ELSE hist
           /\ fresh' = fresh
           /\ lastOp' = Op("remove", "kvs", k, e.ret, a.ret, hist[k] # NoVal, "init")
    /\ snap' = EmptyFn
    /\ UNCHANGED <<tag, dbFiles>>

\* the engine used as a library (main.rs): no server runs
Next ==
    \/ KvStoreOpen /\ UNCHANGED srvVars
    \/ SledOpen /\ UNCHANGED srvVars
    \/ Close /\ UNCHANGED srvVars
    \/ \E k \in Keys : Get(k) /\ UNCHANGED srvVars
    \/ \E k \in Keys, v \in Values : Set(k, v) /\ UNCHANGED srvVars
    \/ \E k \in Keys : Remove(k) /\ UNCHANGED srvVars

Spec == Init /\ [][Next]_vars

(***************************************************************************)
(* The process stops between two filesystem calls of set or remove.        *)
(***************************************************************************)
\* set: "created" is after File::create (the slot file exists and is empty),
\* "written" after file.write (the record is in the file)
CrashPoints == {"created", "written"}

CrashInSet(k, v, point) ==
    /\ owner = "kvs"
    /\ wrapAge <= MaxWrappedOps
    /\ LET slot == IF k \in DOMAIN map THEN map[k] ELSE seek IN
       files' = WriteFile(files, slot,
                          IF point = "created" THEN <<>> ELSE to_string(SetCmd(k, v)))
    \* a record that reached the file whole is a mutation applied
    /\ hist' = IF point = "written" THEN [hist EXCEPT ![k] = v] ELSE hist
    /\ owner' = "none"
    /\ map' = EmptyFn
    /\ logs' = <<>>
    /\ seek' = 0
    /\ wrapAge' = 0
    /\ snap' = EmptyFn
    /\ lastOp' = Op("crash", "kvs", k, Ret("Ok"), Ret("Ok"), hist[k] # NoVal, "init")
    /\ UNCHANGED <<tag, dbFiles, alt, fresh>>

\* remove: after its one filesystem call (rename or remove_file) succeeded
CrashInRemove(k) ==
    /\ owner = "kvs"
    /\ wrapAge <= MaxWrappedOps
    /\ k \in DOMAIN map
    /\ seek # 0
    /\ LET e == KvRemoveFound(map, logs, seek - 1, files, k, map[k]) IN
        /\ e.ret.kind # "Io"
        /\ files' = e.files
    /\ hist' = [hist EXCEPT ![k] = NoVal]
    /\ owner' = "none"
    /\ map' = EmptyFn
    /\ logs' = <<>>
    /\ seek' = 0
    /\ wrapAge' = 0
    /\ snap' = EmptyFn
    /\ lastOp' = Op("crash", "kvs", k, Ret("Ok"), Ret("Ok"), hist[k] # NoVal, "init")
    /\ UNCHANGED <<tag, dbFiles, alt, fresh>>

NextCrash ==
    \/ Next
    \/ \E k \in Keys, v \in Values, p \in CrashPoints :
          CrashInSet(k, v, p) /\ UNCHANGED srvVars
    \/ \E k \in Keys : CrashInRemove(k) /\ UNCHANGED srvVars

SpecCrash == Init /\ [][NextCrash]_vars

(***************************************************************************)
(* Recovery of any root directory: the slot files 0..M-1 each hold a Set   *)
(* or a Remove record, in any mix.                                         *)
(***************************************************************************)
\* the most slot files a root starts with
MaxSlotFiles == 3

Records == {to_string(SetCmd(k, v)) : k \in Keys, v \in Values}
               \cup {to_string(RemoveCmd(k)) : k \in Keys}

InitRecover ==
    /\ SrvInit
    /\ tag \in {"none", "kvs"}
    /\ \E n \in 0..MaxSlotFiles : files \in [0..(n - 1) -> Records]
    /\ dbFiles = FALSE
    /\ owner = "none"
    /\ map = EmptyFn
    /\ logs = <<>>
    /\ seek = 0
    /\ alt = EmptyFn
    /\ hist = [k \in Keys |-> NoVal]
    /\ fresh = FALSE
    /\ wrapAge = 0
    /\ snap = EmptyFn
    /\ lastOp = Op("init", "none", NoVal, Ret("Ok"), Ret("Ok"), FALSE, "init")

SpecRecover == InitRecover /\ [][Next]_vars

(***************************************************************************)
(* Request and Response and their serde_json text, as token sequences.     *)
(***************************************************************************)
GetReq(k) == [type |-> "Get", key |-> k, value |-> NoVal]
SetReq(k, v) == [type |-> "Set", key |-> k, value |-> v]
RemoveReq(k) == [type |-> "Remove", key |-> k, value |-> NoVal]

Requests == {GetReq(k) : k \in Keys} \cup {SetReq(k, v) : k \in Keys, v \in Values}
                \cup {RemoveReq(k) : k \in Keys}

request_to_string(r) ==
    IF r.type = "Set" THEN <<"Set", r.key, r.value>> ELSE <<r.type, r.key>>

request_from_str(s) ==
    IF Len(s) = 3 /\ s[1] = "Set" THEN [ok |-> TRUE, req |-> SetReq(s[2], s[3])]
    ELSE IF Len(s) = 2 /\ s[1] = "Get" THEN [ok |-> TRUE, req |-> GetReq(s[2])]
    ELSE IF Len(s) = 2 /\ s[1] = "Remove" THEN [ok |-> TRUE, req |-> RemoveReq(s[2])]
    ELSE [ok |-> FALSE, req |-> GetReq(NoVal)]

\* impl Display for KvsError
Display(r, key) ==
    IF r.kind = "NotFound" THEN "Key not found: " \o key ELSE r.kind

\* the match arms of serve: Ok(value) => Done(..), Err(e) => Failed(format!("{}", e))
ResponseOf(r, key) ==
    IF IsErr(r) THEN [type |-> "Failed", some |-> FALSE, text |-> Display(r, key)]
    ELSE IF r.kind = "Some" THEN [type |-> "Done", some |-> TRUE, text |-> r.val]
    ELSE [type |-> "Done", some |-> FALSE, text |-> NoVal]

response_to_string(r) ==
    IF r.type = "Failed" THEN <<"Failed", r.text>>
    ELSE IF r.some THEN <<"Done", r.text>>
    ELSE <<"Done">>

\* what a peer may write on a connection: an encoded Request, or text that is none
Payloads == {request_to_string(r) : r \in Requests} \cup {<<"garbage">>}

(***************************************************************************)
(* The server process (kvs-server.rs, KvsServer::run and serve) over the    *)
(* native engine, and the clients (KvsClient::request).  serve blocks in   *)
(* read_to_string until the peer shuts its write side down or goes away;    *)
(* from there to the drop of the stream it is one step.                    *)
(***************************************************************************)
\* the most connections the clients make in one behaviour
MaxConns == 3

\* kvs-server.rs: open the engine, then bind the listener
ServerStart ==
    /\ spc = "down"
    /\ KvStoreOpen
    /\ spc' = IF owner' = "kvs" THEN "accept" ELSE "down"
    /\ order' = <<>>
    /\ UNCHANGED <<cur, backlog, cli, nconn>>

\* TcpStream::connect: the listener's queue takes the connection
ClientConnect(c) ==
    /\ spc # "down"
    /\ nconn < MaxConns
    /\ cli[c].pc = "idle"
    /\ cli' = [cli EXCEPT ![c] = [NoConn EXCEPT !.pc = "connected"]]
    /\ backlog' = Append(backlog, c)
    /\ nconn' = nconn + 1
    /\ UNCHANGED <<engVars, spc, cur, order>>

\* stream.write_all(string.as_bytes())
ClientWrite(c, payload) ==
    /\ cli[c].pc = "connected"
    /\ ~cli[c].ended
    /\ cli' = [cli EXCEPT ![c].pc = "written", ![c].sent = payload]
    /\ UNCHANGED <<engVars, spc, cur, backlog, nconn, order>>

\* stream.shutdown(Shutdown::Write), then the client is in read_to_string
ClientShutdown(c) ==
    /\ cli[c].pc = "written"
    /\ ~cli[c].ended
    /\ cli' = [cli EXCEPT ![c].pc = "reading"]
    /\ UNCHANGED <<engVars, spc, cur, backlog, nconn, order>>

\* read_to_string returns when the server closed the connection
ClientRead(c) ==
    /\ cli[c].pc \in {"connected", "written", "reading"}
    /\ cli[c].ended
    /\ cli' = [cli EXCEPT ![c] = NoConn]
    /\ UNCHANGED <<engVars, spc, cur, backlog, nconn, order>>

\* the client process goes away before it read a response
ClientDrop(c) ==
    /\ cli[c].pc \in {"connected", "written", "reading"}
    /\ ~cli[c].ended
    /\ cli' = [cli EXCEPT ![c].pc = "gone"]
    /\ UNCHANGED <<engVars, spc, cur, backlog, nconn, order>>

\* a listener that hands out a connection while serve still holds one
AcceptWhileServing ==
    /\ spc \in {"accept", "serving"}
    /\ backlog # <<>>
    /\ cur' = Head(backlog)
    /\ backlog' = Tail(backlog)
    /\ spc' = "serving"
    /\ cli' = [cli EXCEPT ![Head(backlog)].accepted = TRUE]
    /\ order' = Append(order, Pending)
    /\ UNCHANGED <<engVars, nconn>>

\* listener.incoming() yields the next connection
Accept ==
    /\ spc = "accept"
    /\ backlog # <<>>
    /\ cur' = Head(backlog)
    /\ backlog' = Tail(backlog)
    /\ spc' = "serving"
    /\ cli' = [cli EXCEPT ![Head(backlog)].accepted = TRUE]
    /\ order' = Append(order, Pending)
    /\ UNCHANGED <<engVars, nconn>>

\* a read_to_string that returns only once the peer closed the whole connection
ReadDoneOnClose == spc = "serving" /\ cli[cur].pc = "gone"

\* serve's read_to_string has the whole request: the peer shut its write side
ReadDone == spc = "serving" /\ cli[cur].pc \in {"reading", "gone"}

\* the connection of cur after serve returned and the stream was dropped;
\* applied: the request serve gave the engine, <<>> if it gave none
EndConn(resps, terr, applied) ==
    \* a client that went away has no connection to read from
    /\ cli' = IF cli[cur].pc = "gone" THEN [cli EXCEPT ![cur] = NoConn]
              ELSE [cli EXCEPT ![cur].recv = resps, ![cur].ended = TRUE, ![cur].terr = terr]
    /\ order' = [order EXCEPT ![Len(order)] = applied]
    /\ cur' = NoVal
    /\ spc' = "accept"
    /\ UNCHANGED <<backlog, nconn>>

\* a panic in serve ends the server process: every connection is closed
ServerDies ==
    /\ cli' = [c \in Clients |->
                 IF cli[c].pc \in {"idle", "gone"} THEN NoConn
                 ELSE [cli[c] EXCEPT !.ended = TRUE]]
    /\ cur' = NoVal
    /\ spc' = "down"
    /\ backlog' = <<>>
    /\ UNCHANGED <<nconn, order>>

\* stream.read_to_string(&mut string)? fails
ServeReadError ==
    /\ ReadDone
    /\ EndConn(<<>>, TRUE, <<>>)
    /\ UNCHANGED engVars

\* serde_json::from_str(&string[..])? fails
ServeBadRequest ==
    /\ ReadDone
    /\ ~request_from_str(cli[cur].sent).ok
    /\ EndConn(<<>>, FALSE, <<>>)
    /\ UNCHANGED engVars

\* the rest of serve once the engine returned: encode the response and
\* write_all it; werr: the write fails
Respond(key, werr) ==
    IF lastOp'.ret.kind = "Panic" THEN ServerDies
    ELSE IF werr THEN EndConn(<<>>, TRUE, cli[cur].sent)
    ELSE EndConn(<<response_to_string(ResponseOf(lastOp'.ret, key))>>, FALSE, cli[cur].sent)

ServeGet(k, werr) ==
    /\ ReadDone
    /\ request_from_str(cli[cur].sent).ok
    /\ request_from_str(cli[cur].sent).req = GetReq(k)
    /\ Get(k)
    /\ Respond(k, werr)

ServeSet(k, v, werr) ==
    /\ ReadDone
    /\ request_from_str(cli[cur].sent).ok
    /\ request_from_str(cli[cur].sent).req = SetReq(k, v)
    /\ Set(k, v)
    /\ Respond(k, werr)

ServeRemove(k, werr) ==
    /\ ReadDone
    /\ request_from_str(cli[cur].sent).ok
    /\ request_from_str(cli[cur].sent).req = RemoveReq(k)
    /\ Remove(k)
    /\ Respond(k, werr)

NextServer ==
    \/ ServerStart
    \/ \E c \in Clients : ClientConnect(c)
    \/ \E c \in Clients, p \in Payloads : ClientWrite(c, p)
    \/ \E c \in Clients : ClientShutdown(c)
    \/ \E c \in Clients : ClientRead(c)
    \/ \E c \in Clients : ClientDrop(c)
    \/ Accept
    \/ ServeReadError
    \/ ServeBadRequest
    \/ \E k \in Keys, werr \in BOOLEAN : ServeGet(k, werr)
    \/ \E k \in Keys, v \in Values, werr \in BOOLEAN : ServeSet(k, v, werr)
    \/ \E k \in Keys, werr \in BOOLEAN : ServeRemove(k, werr)

SpecServer == Init /\ [][NextServer]_vars

(***************************************************************************)
(* The claims.                                                             *)
(***************************************************************************)
SlotRange(n) == 0..(n - 1)

\* C1: on the first instance, opened on the empty root, every get(k) returns
\* Some(v) when the most recent mutation of k was set(k, v), and None when k
\* was never set or was removed since.
C1_GetReturnsLastMutation ==
    (fresh /\ lastOp.op = "get") => lastOp.ret = Expected(lastOp.key)

\* C2: remove(k) returns NotFound exactly when k had no live binding at the
\* call, and ok whenever k was live.
C2_RemoveNotFoundIffNotLive ==
    (fresh /\ lastOp.op = "remove") =>
        /\ (lastOp.ret.kind = "NotFound") <=> ~lastOp.wasLive
        /\ lastOp.wasLive => lastOp.ret.kind = "Ok"

\* C3: after every set or remove the slot files are exactly 0..N-1, N the
\* number of live keys.
C3_SlotFilesAreLiveRange ==
    (fresh /\ lastOp.op \in {"set", "remove"}) =>
        DOMAIN files = SlotRange(Cardinality(Live))

\* C4: closing the engine and reopening it on the same root succeeds, and
\* get on the reopened instance returns for every key what it returned on
\* the instance that was closed.
C4_ReopenKeepsGets ==
    (lastOp.op = "open" /\ lastOp.engine = "kvs" /\ lastOp.after = "close"
        /\ DOMAIN snap = Keys) =>
        /\ lastOp.ret.kind = "Ok"
        /\ \A k \in Keys : GetRet(k) = snap[k]

\* C5: after the process stopped between two filesystem calls of a set or
\* remove, open succeeds and get returns for every key the value of its last
\* completed mutation.
C5_OpenAfterCrash ==
    (lastOp.op = "open" /\ lastOp.engine = "kvs" /\ lastOp.after = "crash") =>
        /\ lastOp.ret.kind = "Ok"
        /\ \A k \in Keys : GetRet(k) = Expected(k)

\* C6: every get, set and remove gives the result the alternative engine
\* gives, run side by side on the same requests.
C6_SameAsAlternativeEngine ==
    (fresh /\ lastOp.op \in {"get", "set", "remove"}) => lastOp.ret = lastOp.altRet

\* C7: an open of a root tagged by the other engine fails with BadArchive and
\* changes nothing under the root; an open of an untagged root writes the
\* opening engine's tag; after a successful open the tag is the engine's.
C7_ArchiveTag ==
    [][(KvStoreOpen \/ SledOpen) =>
        /\ (tag # "none" /\ tag # lastOp'.engine) =>
              /\ lastOp'.ret.kind = "BadArchive"
              /\ owner' = "none"
              /\ UNCHANGED <<tag, files, dbFiles>>
        /\ tag = "none" => tag' = lastOp'.engine
        /\ lastOp'.ret.kind = "Ok" => (tag' = lastOp'.engine /\ owner' = tag')]_vars

\* the sled engine was refused a root that holds the native engine's slots
C7_Witness ==
    /\ lastOp.op = "open"
    /\ lastOp.engine = "sled"
    /\ lastOp.ret.kind = "BadArchive"
    /\ tag = "kvs"
    /\ files # EmptyFn

\* C8: remove(k) of a key the directory does not bind returns NotFound and
\* leaves slot files, directory, log entries and slot count as they were.
C8_RemoveUnboundChangesNothing ==
    [][\A k \in Keys : (Remove(k) /\ k \notin DOMAIN map) =>
        /\ lastOp'.ret.kind = "NotFound"
        /\ UNCHANGED <<tag, files, dbFiles, owner, map, logs, seek>>]_vars

\* remove of an unbound key on a store that holds another key
C8_Witness ==
    /\ lastOp.op = "remove"
    /\ lastOp.ret.kind = "NotFound"
    /\ lastOp.key \notin DOMAIN map
    /\ map # EmptyFn
    /\ files # EmptyFn

\* C9: open of a root whose slot files 0..M-1 each hold a Set or Remove
\* record completes, and leaves exactly the slot files 0..N-1, N the size of
\* the directory it built.
C9_RecoveryIsCanonical ==
    (lastOp.op = "open" /\ lastOp.engine = "kvs" /\ lastOp.after = "init") =>
        /\ lastOp.ret.kind = "Ok"
        /\ DOMAIN files = SlotRange(Cardinality(DOMAIN map))

\* C10: every accepted connection the server has closed, on which no
\* transport error occurred and whose client wrote a payload, shut its write
\* side down and waits for the answer, carries exactly one response, Done or
\* Failed.
C10_OneResponsePerConnection ==
    \A c \in Clients :
        (cli[c].accepted /\ cli[c].ended /\ ~cli[c].terr /\ cli[c].pc = "reading") =>
            /\ Len(cli[c].recv) = 1
            /\ cli[c].recv[1][1] \in {"Done", "Failed"}

\* C11: every Set or Remove request the server serves with an ok result has
\* its mutation in the slot files when serve returns, whether or not the
\* response reached the client (the write failed, the client went away): the
\* key reads as the value set, or as absent once removed.
C11_MutationBeforeResponse ==
    [][/\ \A k \in Keys, v \in Values, werr \in BOOLEAN :
            (ServeSet(k, v, werr) /\ lastOp'.ret.kind = "Ok") =>
                /\ k \in DOMAIN map'
                /\ map'[k] \in DOMAIN files'
                /\ files'[map'[k]] = to_string(SetCmd(k, v))
                /\ KvGet(map', logs', seek', files', k).ret = Some(v)
       /\ \A k \in Keys, werr \in BOOLEAN :
            (ServeRemove(k, werr) /\ lastOp'.ret.kind = "Ok") =>
                KvGet(map', logs', seek', files', k).ret = Ret("None")]_vars

(***************************************************************************)
(* The server started on a root an earlier run left: that run set both     *)
(* keys and closed, so slot 0 holds a's Set record and slot 1 b's.         *)
(***************************************************************************)
InitRestart ==
    /\ SrvInit
    /\ tag = "kvs"
    /\ \E v \in Values, w \in Values :
        /\ files = WriteFile(WriteFile(EmptyFn, 0, to_string(SetCmd("a", v))),
                             1, to_string(SetCmd("b", w)))
        /\ alt = MapInsert(MapInsert(EmptyFn, "a", v), "b", w)
        /\ hist = [k \in Keys |-> IF k = "a" THEN v ELSE w]
    /\ dbFiles = FALSE
    /\ owner = "none"
    /\ map = EmptyFn
    /\ logs = <<>>
    /\ seek = 0
    /\ fresh = FALSE
    /\ wrapAge = 0
    /\ snap = EmptyFn
    /\ lastOp = Op("close", "kvs", NoVal, Ret("Ok"), Ret("Ok"), FALSE, "init")

SpecRestart == InitRestart /\ [][NextServer]_vars

\* C12: every step that ends the serving of a connection, with or without an
\* error, takes the server back to accepting connections.
C12_AcceptLoopSurvives ==
    [][(spc = "serving" /\ spc' # "serving") => spc' = "accept"]_vars

\* the engine after serve gave it the request of payload p (no request: as it was)
ServeOn(e, p) ==
    IF p = <<>> \/ p = Pending THEN e
    ELSE LET r == request_from_str(p).req IN
        IF r.type = "Get" THEN KvGet(e.map, e.logs, e.seek, e.files, r.key)
        ELSE IF r.type = "Set"
            THEN KvSet(e.map, e.logs, e.seek, e.files, r.key, r.value, "wrap")
        ELSE KvRemove(e.map, e.logs, e.seek, e.files, r.key, "wrap")

\* the engine after the requests of reqs, one after another
RECURSIVE Replay(_, _)
Replay(e, reqs) ==
    IF reqs = <<>> THEN e ELSE Replay(ServeOn(e, Head(reqs)), Tail(reqs))

\* the engine the first server process starts with, on the empty root
EmptyEngine == Eng(Ret("Ok"), EmptyFn, <<>>, 0, EmptyFn)

\* C13: the server holds one connection at a time; when serve returns, every
\* connection accepted before is finished, the engine's directory, log
\* entries, slot count and slot files are those of applying the accepted
\* requests one after another in accept order, and the response a waiting
\* client gets is the result of the last of them applied after all the
\* earlier ones.
C13_SequentialInAcceptOrder ==
    [][/\ Cardinality({c \in Clients : cli'[c].accepted /\ ~cli'[c].ended}) <= 1
       /\ (fresh' /\ spc = "serving" /\ spc' = "accept") =>
            LET e == Replay(EmptyEngine, order')
                last == order'[Len(order')]
            IN /\ \A i \in 1..Len(order') : order'[i] # Pending
               /\ <<map', logs', seek', files'>> = <<e.map, e.logs, e.seek, e.files>>
               /\ (last # <<>> /\ cli[cur].pc = "reading" /\ ~cli'[cur].terr) =>
                     cli'[cur].recv =
                        <<response_to_string(ResponseOf(e.ret, request_from_str(last).req.key))>>]_vars

\* two mutations were served one after the other while a third connection
\* waits in the listener's queue
C13_Witness ==
    /\ fresh
    /\ spc = "accept"
    /\ Len(order) = 2
    /\ \A i \in 1..2 : order[i] # <<>> /\ order[i][1] \in {"Set", "Remove"}
    /\ order[1] # order[2]
    /\ backlog # <<>>
    /\ files # EmptyFn

(***************************************************************************)
(* Progress of an exchange.  None of the calls of KvsClient::request before *)
(* its read waits for the server, so a client that stays goes on to write   *)
(* and to shut its write side down; the server's loop goes on whenever      *)
(* accept or the read of serve can return.                                  *)
(***************************************************************************)
ServeStep ==
    \/ ServeReadError
    \/ ServeBadRequest
    \/ \E k \in Keys, werr \in BOOLEAN : ServeGet(k, werr)
    \/ \E k \in Keys, v \in Values, werr \in BOOLEAN : ServeSet(k, v, werr)
    \/ \E k \in Keys, werr \in BOOLEAN : ServeRemove(k, werr)

Fairness ==
    /\ WF_vars(Accept)
    /\ WF_vars(ServeStep)
    /\ \A c \in Clients :
        /\ WF_vars(\E p \in Payloads : ClientWrite(c, p))
        /\ WF_vars(ClientShutdown(c))
        /\ WF_vars(ClientRead(c))

SpecFair == Init /\ [][NextServer]_vars /\ Fairness

\* C14: a client is in its read only after it wrote its request and shut its
\* write side down; from there the server's read returns and the server
\* closes the connection, and the client's read returns: no client stays in
\* its read for ever while the server stays in its own.
C14_NoDeadlock ==
    /\ [](\A c \in Clients : cli[c].pc = "reading" => cli[c].sent # <<>>)
    /\ \A c \in Clients :
        /\ (cli[c].pc = "reading") ~> (cli[c].ended \/ cli[c].pc = "gone")
        /\ (cli[c].pc = "reading" /\ cli[c].ended) ~> (cli[c].pc = "idle")

\* the server answered a client that waits in its read, and closed
C14_Witness ==
    \E c \in Clients :
        /\ cli[c].pc = "reading"
        /\ cli[c].accepted
        /\ cli[c].ended
        /\ ~cli[c].terr
        /\ Len(cli[c].recv) = 1
        /\ cli[c].sent \in {request_to_string(r) : r \in Requests}

(***************************************************************************)
(* The client stub's decoding of the response, and the rm subcommand of    *)
(* kvs-client.  A result Err(Remote { message }) is [kind |-> "Remote",    *)
(* val |-> message].                                                       *)
(***************************************************************************)
Remote(message) == [kind |-> "Remote", val |-> message]

response_from_str(s) ==
    IF Len(s) = 2 /\ s[1] = "Failed"
        THEN [ok |-> TRUE, resp |-> [type |-> "Failed", some |-> FALSE, text |-> s[2]]]
    ELSE IF Len(s) = 2 /\ s[1] = "Done"
        THEN [ok |-> TRUE, resp |-> [type |-> "Done", some |-> TRUE, text |-> s[2]]]
    ELSE IF Len(s) = 1 /\ s[1] = "Done"
        THEN [ok |-> TRUE, resp |-> [type |-> "Done", some |-> FALSE, text |-> NoVal]]
    ELSE [ok |-> FALSE, resp |-> [type |-> "Failed", some |-> FALSE, text |-> NoVal]]

\* KvsClient::remove on what read_to_string gave: recv, the responses the
\* server wrote before it closed; terr, the transport failed
KvsClientRemove(recv, terr) ==
    LET string == IF recv = <<>> THEN <<>> ELSE recv[1]
        d == response_from_str(string)
    IN IF terr THEN Ret("Io")
       ELSE IF ~d.ok THEN Ret("Serde")
       ELSE IF d.resp.type = "Done" THEN Ret("Ok")
       ELSE Remote(d.resp.text)

\* kvs-client rm: what it prints on stdout and the status main's result gives
CliRm(result) ==
    IF result.kind = "NotFound" THEN [stdout |-> "Key not found", exit |-> 1]
    ELSE IF result.kind = "Ok" THEN [stdout |-> "", exit |-> 0]
    ELSE [stdout |-> "", exit |-> 1]

\* C15: when the client's rm of a key is answered by the server's not-found
\* failure, the stub's remove returns Remote with the not-found message, and
\* the CLI prints `Key not found` and exits with a nonzero status.
C15_RmAbsentKey ==
    [][\A c \in Clients, k \in Keys :
        (/\ ClientRead(c)
         /\ cli[c].sent = request_to_string(RemoveReq(k))
         /\ ~cli[c].terr
         /\ cli[c].recv = <<response_to_string(ResponseOf(Ret("NotFound"), k))>>) =>
            LET r == KvsClientRemove(cli[c].recv, cli[c].terr) IN
                /\ r = Remote(Display(Ret("NotFound"), k))
                /\ CliRm(r).stdout = "Key not found"
                /\ CliRm(r).exit # 0]_vars

\* the engine is at the boundary of a public operation: an instance is alive
\* and no operation runs
AtBoundary == owner = "kvs"

\* C16: at the boundary of every public operation the directory maps its keys
\* one-to-one onto 0..N-1, N the slot count, and the directory, the log
\* entries and the slot count all have size N.
C16_DirectoryIsBijection ==
    AtBoundary =>
        /\ {map[k] : k \in DOMAIN map} = SlotRange(seek)
        /\ \A j, k \in DOMAIN map : map[j] = map[k] => j = k
        /\ Cardinality(DOMAIN map) = seek
        /\ Len(logs) = seek

\* C17: at the boundary of every public operation, for every binding k -> i
\* the log entry i has key k and slot file i holds a Set record of key k, and
\* no two slot files hold the same key.
C17_BindingMatchesSlot ==
    AtBoundary =>
        /\ \A k \in DOMAIN map :
            /\ map[k] + 1 \in DOMAIN logs
            /\ logs[map[k] + 1].key = k
            /\ map[k] \in DOMAIN files
            /\ from_str(files[map[k]]).ok
            /\ from_str(files[map[k]]).cmd.type = "Set"
            /\ from_str(files[map[k]]).cmd.key = k
        /\ \A i, j \in DOMAIN files :
            (from_str(files[i]).ok /\ from_str(files[j]).ok
                /\ from_str(files[i]).cmd.key = from_str(files[j]).cmd.key) => i = j
        /\ \A i, j \in DOMAIN logs : logs[i].key = logs[j].key => i = j

\* C18: at the boundary of every public operation, a log entry i that caches
\* a value caches the value of the Set record in slot file i.
C18_CacheEqualsFile ==
    AtBoundary =>
        \A i \in DOMAIN logs :
            logs[i].st.t = "Memory" =>
                /\ (i - 1) \in DOMAIN files
                /\ from_str(files[i - 1]).ok
                /\ from_str(files[i - 1]).cmd.type = "Set"
                /\ from_str(files[i - 1]).cmd.value = logs[i].st.val

\* the slot files f are 0..n-1 for some n
Dense(f) == DOMAIN f = SlotRange(Cardinality(DOMAIN f))

\* the slots of f that hold a Set record of key k
SetSlots(f, k) ==
    {i \in DOMAIN f : /\ from_str(f[i]).ok
                       /\ from_str(f[i]).cmd.type = "Set"
                       /\ from_str(f[i]).cmd.key = k}

\* the keys of the Set records of f
SetKeys(f) == {k \in Keys : SetSlots(f, k) # {}}

\* the greatest slot of a non-empty set of slots
LastSlot(S) == CHOOSE i \in S : \A j \in S : j <= i

\* C19: an open of a root whose slot files 0..n-1 all hold Set records, some
\* key k in two of them, completes; the later record of k replaced the
\* earlier one: the directory and the log entries count one per key, and
\* get(k) returns the value of the last record of k.
C19_OpenDuplicateSet ==
    [][(/\ KvStoreOpen
        /\ tag # "sled"
        /\ Dense(files)
        /\ \A i \in DOMAIN files : \E k \in Keys : i \in SetSlots(files, k)
        /\ \E k \in Keys : Cardinality(SetSlots(files, k)) >= 2) =>
            /\ lastOp'.ret.kind = "Ok"
            /\ DOMAIN map' = SetKeys(files)
            /\ Len(logs') = Cardinality(SetKeys(files))
            /\ \A k \in SetKeys(files) :
                KvGet(map', logs', seek', files', k).ret =
                    Some(from_str(files[LastSlot(SetSlots(files, k))]).cmd.value)]_vars

\* C20: an open of a root whose slot files 0..n-1 hold Set records of
\* distinct keys and whose slot file n holds Remove(k), k the key of slot
\* n-1, completes with k unbound: the directory, the log entries and the
\* slot count are those of the first n-1 records, slot file n-1 is unlinked
\* and get(k) returns None.
C20_OpenRemoveOfLastSlot ==
    [][\A k \in Keys :
        (/\ KvStoreOpen
         /\ tag # "sled"
         /\ Dense(files)
         /\ Cardinality(DOMAIN files) >= 2
         /\ LET n == Cardinality(DOMAIN files) - 1 IN
              /\ files[n] = to_string(RemoveCmd(k))
              /\ SetSlots(files, k) = {n - 1}
              /\ \A i \in SlotRange(n) : \E j \in Keys : SetSlots(files, j) = {i}) =>
            LET n == Cardinality(DOMAIN files) - 1 IN
              /\ lastOp'.ret.kind = "Ok"
              /\ k \notin DOMAIN map'
              /\ Cardinality(DOMAIN map') = n - 1
              /\ Len(logs') = n - 1
              /\ seek' = n - 1
              /\ (n - 1) \notin DOMAIN files'
              /\ KvGet(map', logs', seek', files', k).ret = Ret("None")]_vars

\* C21: at the boundary of every public operation, a log entry at position i
\* that is on disk carries the sub-index i, and a get of the entry's key
\* returns that key's own value.
C21_DiskSubIndexIsSlot ==
    AtBoundary =>
        \A i \in DOMAIN logs :
            logs[i].st.t = "Disk" =>
                /\ logs[i].st.off = i - 1
                /\ GetRet(logs[i].key) = Expected(logs[i].key)

(***************************************************************************)
(* The anomaly get handles: a slot file that holds a Remove record under a *)
(* binding.  The engine writes no Remove record itself (set writes Set      *)
(* records, remove renames and unlinks), so the record comes from another  *)
(* writer on the root while the instance is alive.                         *)
(***************************************************************************)
ForeignRemoveRecord(i, k) ==
    /\ owner = "kvs"
    /\ i \in DOMAIN files
    /\ files' = WriteFile(files, i, to_string(RemoveCmd(k)))
    /\ lastOp' = Op("foreign", "none", k, Ret("Ok"), Ret("Ok"), hist[k] # NoVal, "init")
    /\ snap' = EmptyFn
    /\ UNCHANGED <<tag, dbFiles, owner, map, logs, seek, alt, hist, fresh, wrapAge>>

NextForeign ==
    \/ Next
    \/ \E i \in SlotRange(UsizeMax + 1), k \in Keys :
          ForeignRemoveRecord(i, k) /\ UNCHANGED srvVars

SpecForeign == Init /\ [][NextForeign]_vars

\* get(k) would find k bound to an on-disk slot whose file holds a Remove record
Anomaly(k) ==
    /\ owner = "kvs"
    /\ k \in DOMAIN map
    /\ map[k] < Len(logs)
    /\ logs[map[k] + 1].st.t = "Disk"
    /\ logs[map[k] + 1].st.off \in DOMAIN files
    /\ from_str(files[logs[map[k] + 1].st.off]).ok
    /\ from_str(files[logs[map[k] + 1].st.off]).cmd.type = "Remove"

\* the engines one operation on the key j can leave, from the engine e
AfterOneOp(e, j) ==
    {KvGet(e.map, e.logs, e.seek, e.files, j)}
        \cup {KvSet(e.map, e.logs, e.seek, e.files, j, v, "wrap") : v \in Values}
        \cup {KvRemove(e.map, e.logs, e.seek, e.files, j, "wrap")}

\* C22: a get(k) that finds k bound to an on-disk slot whose file holds a
\* Remove record returns None and unbinds k; from then on get(k) returns None
\* and remove(k) returns NotFound, also after an operation on another key.
C22_AnomalySelfHeals ==
    [][\A k \in Keys :
        (Get(k) /\ Anomaly(k) /\ wrapAge = 0) =>
            LET e == Eng(lastOp'.ret, map', logs', seek', files') IN
                /\ lastOp'.ret = Ret("None")
                /\ k \notin DOMAIN map'
                /\ KvGet(e.map, e.logs, e.seek, e.files, k).ret = Ret("None")
                /\ KvRemove(e.map, e.logs, e.seek, e.files, k, "wrap").ret = Ret("NotFound")
                /\ \A j \in Keys \ {k} : \A e2 \in AfterOneOp(e, j) :
                    e2.ret.kind # "Panic" =>
                        /\ KvGet(e2.map, e2.logs, e2.seek, e2.files, k).ret = Ret("None")
                        /\ KvRemove(e2.map, e2.logs, e2.seek, e2.files, k, "wrap").ret
                               = Ret("NotFound")]_vars

\* C23: every remove that finds its key in the directory starts with a slot
\* count of at least 1, and so neither wraps the counter around nor aborts
\* the process.
C23_NoDecrementAtZero ==
    [][\A k \in Keys :
        (Remove(k) /\ k \in DOMAIN map) =>
            /\ seek >= 1
            /\ lastOp'.ret.kind # "Panic"
            /\ owner' = "kvs" /\ seek' <= seek]_vars

(***************************************************************************)
(* remove when its filesystem call fails: rename or remove_file returns an *)
(* error for a reason outside the engine (permissions, a full or failing    *)
(* disk), and `?` returns it.                                              *)
(***************************************************************************)
KvRemoveIoError(m, l, s, f, key, ovf) ==
    IF key \in DOMAIN m
    THEN \* self.seek -= 1, then rename(..)? or remove_file(..)? returns Err
         IF s = 0
         THEN IF ovf = "panic" THEN Eng(Ret("Panic"), m, l, s, f)
              ELSE Eng(Ret("Io"), m, l, UsizeMax, f)
         ELSE Eng(Ret("Io"), m, l, s - 1, f)
    ELSE Eng(Ret("NotFound"), m, l, s, f)

RemoveIoError(k) ==
    /\ owner = "kvs"
    /\ wrapAge <= MaxWrappedOps
    /\ k \in DOMAIN map
    /\ \E ovf \in Overflow :
        LET e == KvRemoveIoError(map, logs, seek, files, k, ovf) IN
           /\ Apply(e, seek = 0)
           /\ lastOp' = Op("remove", "kvs", k, e.ret, Ret("Io"), hist[k] # NoVal, "fault")
    /\ snap' = EmptyFn
    /\ UNCHANGED <<tag, dbFiles, alt, hist, fresh>>

NextIoError ==
    \/ Next
    \/ \E k \in Keys : RemoveIoError(k) /\ UNCHANGED srvVars

SpecIoError == Init /\ [][NextIoError]_vars

\* C24: a remove whose rename or unlink fails returns the I/O error and
\* leaves the directory, the log entries and the slot count as they were
\* before the call.
C24_FailedRemoveChangesNothing ==
    [][\A k \in Keys :
        (RemoveIoError(k) /\ seek >= 1) =>
            /\ lastOp'.ret.kind = "Io"
            /\ UNCHANGED <<map, logs, seek>>]_vars

=============================================================================
